---- MODULE Spec2Model ----
(***************************************************************************)
(* Model of the detection server of gsy/lightstore (ml/server/app):        *)
(* Detector (load_model, detect, update_class_mapping, model_loaded) and   *)
(* DetectionServicer (Detect, HealthCheck), together with the model file   *)
(* they read.  A loader thread executes load_model, worker threads execute *)
(* the calls dispatched by the gRPC thread pool.  ModelWatcher instances   *)
(* poll the file in threads of their own and call load_model; the main     *)
(* thread starts and stops them and runs serve's signal handler.           *)
(***************************************************************************)
EXTENDS Integers, Sequences, FiniteSets, TLC

\* ------------------------------------------------------------------ bounds
MaxBoxes == 1         \* boxes in one prediction
MaxMtime == 2         \* largest modification time of the file, in ticks
NumClasses == 1       \* the models define the class ids 0 .. NumClasses-1
MaxTriples == 4       \* classes in one SyncClasses request
MaxPolls == 2         \* polls that are counted after a change of the file
MaxSide == 13         \* largest width and height of an image, in pixels
MantissaBits == 6     \* significant bits of a float (Python's have 53)

Loaders == {"main"}             \* threads that call load_model themselves
Watcher == "watcher"            \* the thread of ModelWatcher._watch_loop
WatchThreads == {Watcher, "watcher2"}   \* the threads start() can create
LoadThreads == Loaders \cup WatchThreads
Instances == {"m1", "m2"}       \* the ModelWatcher objects that can be made
Workers == {"w1"}

Ticks == {0, 1}                 \* positions of st_mtime within one second
Mtimes == 0 .. MaxMtime
ClassIds == 0 .. (NumClasses - 1)
Good == {"a", "b"}              \* file contents that deserialize
Contents == Good \cup {"corrupt"}
Images == {"ok", "bad"}
ThresholdValues == {-25, 0, 25} \* thresholds a caller sends, in hundredths

\* ------------------------------------------------------------- the values
None == "None"                 \* self._model is None
Free == "free"                 \* nobody owns self._model_lock
Unknown == [tag |-> "unknown", sec |-> 0]
Entries == {<<"sku-001", <<"Coca-Cola">>>>, <<"sku-002", <<"Sprite">>>>}

Overlays == UNION {[d -> Entries] : d \in SUBSET ClassIds}

\* SyncClassesRequest.classes: class_id, sku_id, class_name
Triples ==
    {[class_id |-> c, sku_id |-> e[1], class_name |-> e[2]] :
        c \in ClassIds, e \in Entries}

Requests == UNION {[1 .. n -> Triples] : n \in 0 .. MaxTriples}

BoxSeqs == UNION {[1 .. n -> ClassIds] : n \in 0 .. MaxBoxes}

NoHandle == [model |-> None, version |-> Unknown]

NoFile == [exists |-> FALSE, mtime |-> 0, content |-> "a"]

VARIABLES
    file,            \* the model file: exists, mtime (ticks), content
    model,           \* Detector._model: None or the content it was built from
    model_version,   \* Detector._model_version
    model_lock,      \* owner of Detector._model_lock, or Free
    class_mapping,   \* Detector._class_mapping
    lpc,             \* position of each loader thread in load_model
    new_model,       \* load_model's local new_model
    before,          \* model and version when each load_model call began
    wk,              \* each worker's call in flight: position and locals
    resp,            \* the last result handed to a caller
    complete,        \* versions whose install ran to the end of the with block
    synced,          \* the last SyncClasses whose overlay is still in place
    hot,             \* Detector._watcher: None or a ModelWatcher
    running,         \* ModelWatcher._running, of each instance
    last_mtime,      \* ModelWatcher._last_mtime, of each instance
    thread,          \* ModelWatcher._thread, of each instance
    target,          \* the instance whose _watch_loop each thread runs
    stopped,         \* whether stop() was called on each instance, and how
    ctl,             \* position of the main thread in ModelWatcher.stop
    touch,           \* the last change of the file under a running watcher
    server,          \* the gRPC server, and the process after it
    shutdown_event,  \* serve's shutdown_event
    box              \* one box of a prediction on its way through detect

vars == <<file, model, model_version, model_lock, class_mapping,
          lpc, new_model, before, wk, resp, complete, synced,
          hot, running, last_mtime, thread, target, stopped, ctl, touch,
          server, shutdown_event, box>>

watcherVars == <<hot, running, last_mtime, thread, target, stopped, ctl,
                 touch>>
serverVars == <<server, shutdown_event>>

overlayVars == <<class_mapping, synced>>

engineVars == <<model, model_version, model_lock, complete>>
loaderVars == <<lpc, new_model, before>>
workerVars == <<wk, resp>>

\* --------------------------------------------------------- pure functions

\* Detector._compute_version: f"v{int(mtime)}"
compute_version(mtime) == [tag |-> "v", sec |-> mtime \div Cardinality(Ticks)]

\* the model judged by its version string
model_loaded_by_version == model_version # Unknown

\* Detector.model_loaded: self._model is not None
model_loaded == model # None

\* self._model.names.get(class_id, f"class_{class_id}")
names_get(m, class_id) ==
    IF class_id \in ClassIds
    THEN <<"name", m, ToString(class_id)>>
    ELSE <<"class_", ToString(class_id)>>

\* ModelConfig.input_size
InputSize == 640

\* Detector.class_names: [] without a model, else the model's names
class_names ==
    IF model = None THEN << >>
    ELSE [c \in ClassIds |-> names_get(model, c)]

\* what get_model_info returns while self._model is None
NoModelInfo ==
    [version |-> [tag |-> "none", sec |-> 0], architecture |-> "none",
     class_names |-> << >>, input_size |-> InputSize]

\* Detector.get_model_info: the sentinel, or the installed handle
get_model_info ==
    IF model = None
    THEN NoModelInfo
    ELSE [version |-> model_version, architecture |-> "yolov8",
          class_names |-> [c \in ClassIds |-> names_get(model, c)],
          input_size |-> InputSize]

\* ModelConfig.default_confidence and default_iou, in hundredths
DefaultConfidence == 50
DefaultIou == 45

\* an Optional[float] argument: None, or a number
NoThreshold == [given |-> FALSE, val |-> 0]
Threshold(v) == [given |-> TRUE, val |-> v]
ThresholdArgs == {NoThreshold} \cup {Threshold(v) : v \in ThresholdValues}

\* Python's "x or default": the default when x is None or 0.0, else x
python_or(x, default) == IF x.given /\ x.val # 0 THEN x.val ELSE default

\* the servicer's "request.threshold if request.threshold > 0 else None"
servicer_threshold(v) == IF v > 0 THEN Threshold(v) ELSE NoThreshold

\* a lock that excludes nobody
GuardIgnored(t) == TRUE

\* threading.RLock: free, or already owned by the acquiring thread
GuardAvailable(t) == model_lock = Free \/ model_lock = t

\* a lock that an exception leaves held
unwind_leak(t) == t

\* leaving a with block through an exception releases the lock
unwind(t) == Free

\* no SyncClasses has been answered since the overlay was last replaced
NoSync == [valid |-> FALSE, classes |-> << >>, class_count |-> 0]

\* ModelWatcher._last_mtime: None, or the mtime last observed
NoMtime == [seen |-> FALSE, mtime |-> 0]
Seen(mt) == [seen |-> TRUE, mtime |-> mt]

\* no single increase of the file's mtime is being followed
\* (raised: on_change has raised since the watcher was started; skipped:
\* a poll has found the file, as it is now, with no news in its mtime)
NoTouch ==
    [active |-> FALSE, v0 |-> Unknown, calls |-> 0, polls |-> 0,
     raised |-> FALSE, skipped |-> FALSE]

\* where a thread is when it is not inside load_model: a caller of its own
\* is between calls, the watcher thread is not started ("off"), at the
\* test of its loop ("loop"), asleep ("sleep") or finished ("exit")
Caller(t) == IF t \in WatchThreads THEN "off" ELSE "idle"

\* where load_model returns to: the watcher's loop, or the caller
AfterLoad(t) == IF t \in WatchThreads THEN "loop" ELSE "idle"

\* a worker that is between calls
IdleCall ==
    [op |-> "none", pc |-> "idle", boxes |-> << >>, i |-> 0,
     hit |-> FALSE, names |-> << >>, skus |-> << >>, reads |-> {},
     v0 |-> Unknown, version |-> Unknown, hist |-> {},
     req_conf |-> NoThreshold, req_iou |-> NoThreshold,
     conf_arg |-> NoThreshold, iou_arg |-> NoThreshold,
     conf |-> 0, iou |-> 0]

\* no result yet
NoResp ==
    [by |-> "none", op |-> "none", out |-> "none", err |-> "none",
     boxes |-> << >>, names |-> << >>, skus |-> << >>, reads |-> {},
     v0 |-> Unknown, version |-> Unknown, hist |-> {},
     healthy |-> FALSE, status |-> "none", loaded |-> FALSE,
     before |-> NoHandle, arg |-> << >>, dropped |-> FALSE,
     classes |-> << >>, success |-> FALSE, class_count |-> 0,
     repeat |-> FALSE,
     req_conf |-> NoThreshold, req_iou |-> NoThreshold,
     conf |-> 0, iou |-> 0]

\* load_model returns to its caller
Returned(t, value, logged) ==
    [NoResp EXCEPT !.by = t, !.op = "load_model", !.out = value,
                   !.err = logged, !.before = before[t]]

InFlight(w) == wk[w].pc # "idle"

\* ---------------------------------------------------------------- floats

\* a float is m / 2^e with MantissaBits significant bits in m, or zero
Exponents == 0 .. (MantissaBits + 10)

\* the float nearest to n / d, ties to the even mantissa: what Python's
\* float arithmetic returns for an operation whose exact result is n / d
\* (0 <= n / d < 2^MantissaBits)
fl(n, d) ==
    IF n = 0 THEN [m |-> 0, e |-> 0]
    ELSE LET e == CHOOSE k \in Exponents :
                     /\ n * 2^k >= 2^(MantissaBits - 1) * d
                     /\ k = 0 \/ n * 2^(k - 1) < 2^(MantissaBits - 1) * d
             q == (n * 2^e) \div d
             r == (n * 2^e) % d
             m == IF 2 * r > d \/ (2 * r = d /\ q % 2 = 1)
                  THEN q + 1 ELSE q
         IN  IF m = 2^MantissaBits
             THEN [m |-> 2^(MantissaBits - 1), e |-> e - 1]
             ELSE [m |-> m, e |-> e]

\* config.input_size: the default and another setting
InputSizes == {InputSize, InputSize \div 2}

\* the side an entry of xyxy is measured along: x by the width, y by the
\* height
side(b, k) == IF k \in {1, 3} THEN b.W ELSE b.H

\* the boxes of the images: corners within the image, in whole pixels
RawBoxes ==
    {[W |-> w, H |-> h, S |-> sz, raw |-> <<x1, y1, x2, y2>>,
      norm |-> << >>, pc |-> "raw"] :
        w \in 1 .. MaxSide, h \in {1, MaxSide}, sz \in InputSizes,
        x1 \in 0 .. MaxSide, y1 \in {0, 1}, x2 \in 0 .. MaxSide,
        y2 \in {1, MaxSide}}

\* no box is followed
NoBox == [W |-> 1, H |-> 1, S |-> InputSize, raw |-> <<0, 0, 0, 0>>,
          norm |-> << >>, pc |-> "none"]

\* start, stop, start_hot_reload or stop_hot_reload returns to the main
\* thread
Called(op) == [NoResp EXCEPT !.by = "main", !.op = op, !.out = "ok"]

\* the main thread is not inside ModelWatcher.stop
NoCtl == [pc |-> "idle", inst |-> None, drop |-> FALSE]

\* the last result has been taken by its caller, and the process lives
Ready == resp = NoResp /\ server # "exited"

\* the listener takes new calls: from server.start() to server.stop()
Accepting == server = "serving"

\* the main thread is free to make a call of its own: it is not inside
\* stop() and not in the signal handler
MainFree == ctl = NoCtl /\ ~shutdown_event

\* no ModelWatcher has been made, the server is up, no signal has arrived
InitSupervisor ==
    /\ hot = None
    /\ running = [i \in Instances |-> FALSE]
    /\ last_mtime = [i \in Instances |-> NoMtime]
    /\ thread = [i \in Instances |-> None]
    /\ target = [t \in WatchThreads |-> None]
    /\ stopped = [i \in Instances |-> "no"]
    /\ ctl = NoCtl
    /\ touch = NoTouch
    /\ server = "serving"
    /\ shutdown_event = FALSE
    /\ box = NoBox

\* ------------------------------------------------------------------- Init
Init ==
    /\ file = NoFile
    /\ model = None
    /\ model_version = Unknown
    /\ model_lock = Free
    /\ class_mapping = << >>
    /\ lpc = [t \in LoadThreads |-> Caller(t)]
    /\ new_model = [t \in LoadThreads |-> None]
    /\ before = [t \in LoadThreads |-> NoHandle]
    /\ wk = [w \in Workers |-> IdleCall]
    /\ resp = NoResp
    /\ complete = {}
    /\ synced = NoSync
    /\ InitSupervisor

\* a model is installed: load_model has returned True
InitLoaded ==
    /\ file = [exists |-> TRUE, mtime |-> MaxMtime, content |-> "a"]
    /\ model = "a"
    /\ model_version = compute_version(MaxMtime)
    /\ model_lock = Free
    /\ class_mapping = << >>
    /\ lpc = [t \in LoadThreads |-> Caller(t)]
    /\ new_model = [t \in LoadThreads |-> None]
    /\ before = [t \in LoadThreads |-> NoHandle]
    /\ wk = [w \in Workers |-> IdleCall]
    /\ resp = NoResp
    /\ complete = {compute_version(MaxMtime)}
    /\ synced = NoSync
    /\ InitSupervisor

\* the engine as main.py has it when the watcher is started: the initial
\* load_model of a file written at mtime 0 has returned True
InitWatched ==
    /\ file = [exists |-> TRUE, mtime |-> 0, content |-> "a"]
    /\ model = "a"
    /\ model_version = compute_version(0)
    /\ model_lock = Free
    /\ class_mapping = << >>
    /\ lpc = [t \in LoadThreads |-> Caller(t)]
    /\ new_model = [t \in LoadThreads |-> None]
    /\ before = [t \in LoadThreads |-> NoHandle]
    /\ wk = [w \in Workers |-> IdleCall]
    /\ resp = NoResp
    /\ complete = {compute_version(0)}
    /\ synced = NoSync
    /\ InitSupervisor

\* serve at "server.wait_for_termination()": the initial load_model has
\* returned True, start_hot_reload has started the watcher on that file,
\* the server takes calls
InitServing ==
    /\ file = [exists |-> TRUE, mtime |-> 0, content |-> "a"]
    /\ model = "a"
    /\ model_version = compute_version(0)
    /\ model_lock = Free
    /\ class_mapping = << >>
    /\ lpc = [t \in LoadThreads |->
                IF t = Watcher THEN "loop" ELSE Caller(t)]
    /\ new_model = [t \in LoadThreads |-> None]
    /\ before = [t \in LoadThreads |-> NoHandle]
    /\ wk = [w \in Workers |-> IdleCall]
    /\ resp = NoResp
    /\ complete = {compute_version(0)}
    /\ synced = NoSync
    /\ hot = "m1"
    /\ running = [i \in Instances |-> i = "m1"]
    /\ last_mtime = [i \in Instances |->
                       IF i = "m1" THEN Seen(0) ELSE NoMtime]
    /\ thread = [i \in Instances |-> IF i = "m1" THEN Watcher ELSE None]
    /\ target = [t \in WatchThreads |-> IF t = Watcher THEN "m1" ELSE None]
    /\ stopped = [i \in Instances |-> "no"]
    /\ ctl = NoCtl
    /\ touch = NoTouch
    /\ server = "serving"
    /\ shutdown_event = FALSE
    /\ box = NoBox

\* detect has the prediction for an image of W by H pixels, made at
\* imgsz = S, and is at one box of it
InitBox ==
    /\ file = [exists |-> TRUE, mtime |-> 0, content |-> "a"]
    /\ model = "a"
    /\ model_version = compute_version(0)
    /\ model_lock = Free
    /\ class_mapping = << >>
    /\ lpc = [t \in LoadThreads |-> Caller(t)]
    /\ new_model = [t \in LoadThreads |-> None]
    /\ before = [t \in LoadThreads |-> NoHandle]
    /\ wk = [w \in Workers |-> IdleCall]
    /\ resp = NoResp
    /\ complete = {compute_version(0)}
    /\ synced = NoSync
    /\ hot = None
    /\ running = [i \in Instances |-> FALSE]
    /\ last_mtime = [i \in Instances |-> NoMtime]
    /\ thread = [i \in Instances |-> None]
    /\ target = [t \in WatchThreads |-> None]
    /\ stopped = [i \in Instances |-> "no"]
    /\ ctl = NoCtl
    /\ touch = NoTouch
    /\ server = "serving"
    /\ shutdown_event = FALSE
    /\ box \in {b \in RawBoxes :
                  /\ b.raw[1] <= b.raw[3] /\ b.raw[3] <= b.W
                  /\ b.raw[2] <= b.raw[4] /\ b.raw[4] <= b.H}

\* a normalization by the inference input size
normalize_by_input_size ==
    /\ box.pc = "raw"
    /\ box' = [box EXCEPT !.norm = [k \in 1 .. 4 |-> fl(box.raw[k], box.S)],
                          !.pc = "norm"]
    /\ UNCHANGED <<file, engineVars, loaderVars, workerVars, overlayVars,
                   watcherVars, server, shutdown_event>>

\* "x1, y1, x2, y2 = boxes.xyxy[i].tolist()" and the four divisions by
\* orig_width and orig_height
normalize ==
    /\ box.pc = "raw"
    /\ box' = [box EXCEPT
                 !.norm = [k \in 1 .. 4 |-> fl(box.raw[k], side(box, k))],
                 !.pc = "norm"]
    /\ UNCHANGED <<file, engineVars, loaderVars, workerVars, overlayVars,
                   watcherVars, server, shutdown_event>>

\* serve before its initial load: the model file is there, nothing is
\* loaded, no watcher is made
InitStartup ==
    /\ file = [exists |-> TRUE, mtime |-> 0, content |-> "a"]
    /\ model = None
    /\ model_version = Unknown
    /\ model_lock = Free
    /\ class_mapping = << >>
    /\ lpc = [t \in LoadThreads |-> Caller(t)]
    /\ new_model = [t \in LoadThreads |-> None]
    /\ before = [t \in LoadThreads |-> NoHandle]
    /\ wk = [w \in Workers |-> IdleCall]
    /\ resp = NoResp
    /\ complete = {}
    /\ synced = NoSync
    /\ InitSupervisor

\* --------------------------------------------------------------- the file
\* the file is written; when that is one increase of its mtime, above all
\* the running watcher has observed, it is followed from here on
FileWrite(content, mt) ==
    /\ Ready
    /\ file' = [exists |-> TRUE, mtime |-> mt, content |-> content]
    /\ file' # file
    /\ touch' = IF hot = None \/ ~running[hot] THEN touch
                ELSE IF /\ file.exists /\ mt > file.mtime
                        /\ last_mtime[hot].seen => mt > last_mtime[hot].mtime
                     THEN [active |-> TRUE, v0 |-> model_version,
                           calls |-> 0, polls |-> 0, raised |-> touch.raised,
                           skipped |-> FALSE]
                     ELSE [NoTouch EXCEPT !.raised = touch.raised]
    /\ UNCHANGED <<engineVars, loaderVars, workerVars, overlayVars,
                   hot, running, last_mtime, thread, target, stopped, ctl,
                   serverVars, box>>

FileDelete ==
    /\ Ready
    /\ file.exists
    /\ file' = NoFile
    /\ touch' = [NoTouch EXCEPT !.raised = touch.raised]
    /\ UNCHANGED <<engineVars, loaderVars, workerVars, overlayVars,
                   hot, running, last_mtime, thread, target, stopped, ctl,
                   serverVars, box>>

\* the file is replaced by a loadable one with a greater mtime
FileReplace(content, mt) ==
    /\ file.exists
    /\ content \in Good
    /\ mt > file.mtime
    /\ FileWrite(content, mt)

\* ------------------------------------------------------------- load_model

\* an except branch that unloads the engine
load_model_except_unload(t) ==
    /\ lpc' = [lpc EXCEPT ![t] = AfterLoad(t)]
    /\ resp' = Returned(t, "False", "failed")
    /\ new_model' = [new_model EXCEPT ![t] = None]
    /\ before' = [before EXCEPT ![t] = NoHandle]
    /\ model' = None
    /\ model_version' = Unknown

\* the except branch of load_model: log, return False; touches no field
load_model_except(t) ==
    /\ lpc' = [lpc EXCEPT ![t] = AfterLoad(t)]
    /\ resp' = Returned(t, "False", "failed")
    /\ new_model' = [new_model EXCEPT ![t] = None]
    /\ before' = [before EXCEPT ![t] = NoHandle]
    /\ model' = model
    /\ model_version' = model_version

\* a missing file that unloads the engine
load_model_not_found_unload(t) ==
    /\ Ready
    /\ lpc[t] = "idle"
    /\ ~file.exists
    /\ resp' = [Returned(t, "False", "not_found") EXCEPT
                 !.before = [model |-> model, version |-> model_version]]
    /\ lpc' = [lpc EXCEPT ![t] = AfterLoad(t)]
    /\ model' = None
    /\ model_version' = Unknown
    /\ UNCHANGED <<new_model, before, model_lock, complete, file,
                   watcherVars, serverVars, box, wk, overlayVars>>

\* "if not model_path.exists(): return False"
load_model_not_found(t) ==
    /\ Ready
    /\ lpc[t] = "idle"
    /\ ~file.exists
    /\ resp' = [Returned(t, "False", "not_found") EXCEPT
                 !.before = [model |-> model, version |-> model_version]]
    /\ lpc' = [lpc EXCEPT ![t] = AfterLoad(t)]
    /\ UNCHANGED <<new_model, before, engineVars, file, watcherVars, serverVars, box, wk,
                   overlayVars>>

\* a load that takes the lock on entering the try block
load_model_begin_locked(t) ==
    /\ Ready
    /\ lpc[t] = "idle"
    /\ file.exists
    /\ GuardAvailable(t)
    /\ model_lock' = t
    /\ lpc' = [lpc EXCEPT ![t] = "deser"]
    /\ before' = [before EXCEPT
                   ![t] = [model |-> model, version |-> model_version]]
    /\ UNCHANGED <<new_model, model, model_version, complete, file, watcherVars, serverVars, box,
                   workerVars, overlayVars>>

\* the path exists: enter the try block
load_model_begin(t) ==
    /\ Ready
    /\ lpc[t] = "idle"
    /\ file.exists
    /\ lpc' = [lpc EXCEPT ![t] = "deser"]
    /\ before' = [before EXCEPT
                   ![t] = [model |-> model, version |-> model_version]]
    /\ UNCHANGED <<new_model, engineVars, file, watcherVars, serverVars, box, workerVars, overlayVars>>

\* a deserialization that installs the model it has just read
load_model_deserialize_install(t) ==
    /\ Ready
    /\ lpc[t] = "deser"
    /\ IF file.exists /\ file.content \in Good
       THEN /\ new_model' = [new_model EXCEPT ![t] = file.content]
            /\ lpc' = [lpc EXCEPT ![t] = "warm"]
            /\ model' = file.content
            /\ UNCHANGED <<before, resp, model_version>>
       ELSE load_model_except(t)
    /\ UNCHANGED <<model_lock, complete, file, watcherVars, serverVars, box, wk, overlayVars>>

\* new_model = YOLO(str(model_path)): reads the file as it is now
load_model_deserialize(t) ==
    /\ Ready
    /\ lpc[t] = "deser"
    /\ IF file.exists /\ file.content \in Good
       THEN /\ new_model' = [new_model EXCEPT ![t] = file.content]
            /\ lpc' = [lpc EXCEPT ![t] = "warm"]
            /\ UNCHANGED <<before, resp, model, model_version>>
       ELSE load_model_except(t)
    /\ UNCHANGED <<model_lock, complete, file, watcherVars, serverVars, box, wk, overlayVars>>

\* new_model.predict(dummy_input): the warm-up inference, which may raise
load_model_warmup(t, fails) ==
    /\ Ready
    /\ lpc[t] = "warm"
    /\ IF fails
       THEN load_model_except(t)
       ELSE /\ lpc' = [lpc EXCEPT ![t] = "install"]
            /\ UNCHANGED <<new_model, before, resp, model, model_version>>
    /\ UNCHANGED <<model_lock, complete, file, watcherVars, serverVars, box, wk, overlayVars>>

\* an install that also resets the overlay
load_model_install_reset(t) ==
    /\ Ready
    /\ lpc[t] = "install"
    /\ GuardAvailable(t)
    /\ model_lock' = t
    /\ model' = new_model[t]
    /\ lpc' = [lpc EXCEPT ![t] = "version"]
    /\ class_mapping' = << >>
    /\ UNCHANGED <<model_version, complete, new_model, before, file, watcherVars, serverVars, box,
                   workerVars, synced>>

\* "with self._model_lock: self._model = new_model"
load_model_install(t) ==
    /\ Ready
    /\ lpc[t] = "install"
    /\ GuardAvailable(t)
    /\ model_lock' = t
    /\ model' = new_model[t]
    /\ lpc' = [lpc EXCEPT ![t] = "version"]
    /\ UNCHANGED <<model_version, complete, new_model, before, file, watcherVars, serverVars, box,
                   workerVars, overlayVars>>

\* "self._model_version = self._compute_version(model_path)", whose stat()
\* raises when the file is gone; either way the with block is left
load_model_version(t) ==
    /\ Ready
    /\ lpc[t] = "version"
    /\ IF file.exists
       THEN /\ model_version' = compute_version(file.mtime)
            /\ model' = model
            /\ complete' = complete \cup {compute_version(file.mtime)}
            /\ lpc' = [lpc EXCEPT ![t] = "log"]
            /\ UNCHANGED <<before, new_model, resp>>
       ELSE /\ load_model_except(t)
            /\ UNCHANGED complete
    /\ model_lock' = Free
    /\ UNCHANGED <<file, watcherVars, serverVars, box, wk, overlayVars>>

\* the two logger.info lines (self.class_names takes the lock), return True
load_model_log(t) ==
    /\ Ready
    /\ lpc[t] = "log"
    /\ GuardAvailable(t)
    /\ lpc' = [lpc EXCEPT ![t] = AfterLoad(t)]
    /\ resp' = Returned(t, "True", "none")
    /\ new_model' = [new_model EXCEPT ![t] = None]
    /\ before' = [before EXCEPT ![t] = NoHandle]
    /\ UNCHANGED <<engineVars, file, watcherVars, serverVars, box, wk, overlayVars>>

\* ----------------------------------------------------------- ModelWatcher

\* an instance as __init__ left it and that nothing refers to
Fresh(i) == thread[i] = None /\ stopped[i] = "no" /\ hot # i

\* the thread of instance i is inside on_change
InCallback(t) == lpc[t] \notin {"off", "loop", "sleep", "continue", "exit"}

\* the thread t is executing load_model
Loading(t) == IF t \in WatchThreads THEN InCallback(t) ELSE lpc[t] # "idle"

\* the threads that execute _watch_loop of the instance i
Polling(i) ==
    {t \in WatchThreads : target[t] = i /\ lpc[t] \notin {"off", "exit"}}

\* ModelWatcher.start; t is the Thread it makes when it does not return at
\* "if self._running: return"
start_body(i, t) ==
    IF running[i]
    THEN UNCHANGED <<running, last_mtime, thread, target, lpc>>
    ELSE /\ running' = [running EXCEPT ![i] = TRUE]
         /\ last_mtime' = [last_mtime EXCEPT
                             ![i] = IF file.exists THEN Seen(file.mtime)
                                    ELSE NoMtime]
         /\ thread' = [thread EXCEPT ![i] = t]
         /\ target' = [target EXCEPT ![t] = i]
         /\ lpc' = [lpc EXCEPT ![t] = "loop"]

\* a call of ModelWatcher.start on the instance i
start(i, t) ==
    /\ Ready
    /\ MainFree
    /\ lpc[t] = "off"
    /\ start_body(i, t)
    /\ resp' = Called("start")
    /\ UNCHANGED <<hot, stopped, ctl, touch, new_model, before, engineVars,
                   file, wk, overlayVars, serverVars, box>>

\* Detector.start_hot_reload: with a watcher in place it returns; else it
\* makes a ModelWatcher, the fresh instance i, and calls its start()
start_hot_reload(i, t) ==
    /\ Ready
    /\ MainFree
    /\ lpc[t] = "off"
    /\ Fresh(i)
    /\ IF hot # None
       THEN UNCHANGED <<hot, running, last_mtime, thread, target, lpc>>
       ELSE /\ hot' = i
            /\ start_body(i, t)
    /\ touch' = IF hot # None THEN touch ELSE NoTouch
    /\ resp' = Called("start_hot_reload")
    /\ UNCHANGED <<stopped, ctl, new_model, before, engineVars, file, wk,
                   overlayVars, serverVars, box>>

\* ModelWatcher.stop up to its join: "self._running = False", and with no
\* thread made it returns at once; stopped[i] notes whether there was a
\* thread and whether the callback was executing at this moment
stop_body(i, drop) ==
    /\ running' = [running EXCEPT ![i] = FALSE]
    /\ stopped' = [stopped EXCEPT
                     ![i] = IF thread[i] = None THEN "unstarted"
                            ELSE IF InCallback(thread[i]) THEN "reloading"
                            ELSE "quiet"]
    /\ IF thread[i] = None
       THEN /\ ctl' = NoCtl
            /\ resp' = Called("stop")
            /\ hot' = IF drop THEN None ELSE hot
       ELSE /\ ctl' = [pc |-> "join", inst |-> i, drop |-> drop]
            /\ UNCHANGED <<resp, hot>>

\* a call of ModelWatcher.stop on the instance i
stop(i) ==
    /\ Ready
    /\ MainFree
    /\ stop_body(i, FALSE)
    /\ touch' = IF hot = i THEN NoTouch ELSE touch
    /\ UNCHANGED <<last_mtime, thread, target, loaderVars, engineVars, file,
                   wk, overlayVars, serverVars, box>>

\* Detector.stop_hot_reload: "if self._watcher:" stop() it, then drop it
stop_hot_reload_body ==
    /\ IF hot = None
       THEN /\ resp' = Called("stop_hot_reload")
            /\ UNCHANGED <<hot, running, stopped, ctl>>
       ELSE stop_body(hot, TRUE)
    /\ touch' = NoTouch
    /\ UNCHANGED <<last_mtime, thread, target, loaderVars, engineVars, file,
                   wk, overlayVars, server, box>>

\* a call of Detector.stop_hot_reload by the main thread
stop_hot_reload ==
    /\ Ready
    /\ MainFree
    /\ stop_hot_reload_body
    /\ UNCHANGED shutdown_event

\* a join that gives up while the thread is still asleep
join_early ==
    /\ Ready
    /\ ctl.pc = "join"
    /\ lpc[thread[ctl.inst]] \notin {"loop", "continue"}
    /\ ctl' = NoCtl
    /\ hot' = IF ctl.drop THEN None ELSE hot
    /\ resp' = Called(IF ctl.drop THEN "stop_hot_reload" ELSE "stop")
    /\ UNCHANGED <<running, last_mtime, thread, target, stopped, touch,
                   loaderVars, engineVars, file, wk, overlayVars, serverVars,
                   box>>

\* a join that ends the thread it has waited for in vain
join_abort ==
    /\ Ready
    /\ ctl.pc = "join"
    /\ \/ lpc[thread[ctl.inst]] = "exit"
       \/ InCallback(thread[ctl.inst])
    /\ ctl' = NoCtl
    /\ hot' = IF ctl.drop THEN None ELSE hot
    /\ resp' = Called(IF ctl.drop THEN "stop_hot_reload" ELSE "stop")
    /\ lpc' = [lpc EXCEPT ![thread[ctl.inst]] = "exit"]
    /\ UNCHANGED <<running, last_mtime, thread, target, stopped, touch,
                   new_model, before, engineVars, file, wk, overlayVars,
                   serverVars, box>>

\* "self._thread.join(timeout=self.interval + 1)" returns: the thread has
\* ended, or the timeout has passed, which takes a callback in progress
\* (a sleeping thread wakes within interval and ends or enters on_change);
\* stop() returns, and stop_hot_reload then drops the watcher
join ==
    /\ Ready
    /\ ctl.pc = "join"
    /\ \/ lpc[thread[ctl.inst]] = "exit"
       \/ InCallback(thread[ctl.inst])
    /\ ctl' = NoCtl
    /\ hot' = IF ctl.drop THEN None ELSE hot
    /\ resp' = Called(IF ctl.drop THEN "stop_hot_reload" ELSE "stop")
    /\ UNCHANGED <<running, last_mtime, thread, target, stopped, touch,
                   loaderVars, engineVars, file, wk, overlayVars, serverVars, box>>

\* "while self._running:" and on to time.sleep, or the thread ends; the
\* test is reached from the end of the body and from "continue"
watch_loop(t) ==
    /\ Ready
    /\ lpc[t] \in {"loop", "continue"}
    /\ lpc' = [lpc EXCEPT
                 ![t] = IF running[target[t]] THEN "sleep" ELSE "exit"]
    /\ UNCHANGED <<new_model, before, engineVars, file, watcherVars,
                   workerVars, overlayVars, serverVars, box>>

\* a test that takes every other mtime for news
changed_backwards(i) ==
    /\ file.exists
    /\ ~last_mtime[i].seen \/ file.mtime # last_mtime[i].mtime

\* the file's mtime is news to the instance i: there is a file, and no
\* mtime was observed or this one is greater
changed(i) ==
    /\ file.exists
    /\ ~last_mtime[i].seen \/ file.mtime > last_mtime[i].mtime

\* where a poll leads: into on_change, to "continue" when the file is
\* missing, to the end of the body when its mtime is not news
polled(i, called) ==
    IF called THEN "idle" ELSE IF file.exists THEN "loop" ELSE "continue"

\* the polls and the callbacks counted after the change that is followed
counted(t, called) ==
    IF target[t] # hot THEN touch
    ELSE IF ~touch.active
    THEN [touch EXCEPT !.skipped = @ \/ (file.exists /\ ~called)]
    ELSE [touch EXCEPT
            !.skipped = @ \/ (file.exists /\ ~called),
            !.polls = IF @ < MaxPolls THEN @ + 1 ELSE @,
            !.calls = IF called /\ @ < MaxPolls THEN @ + 1 ELSE @]

\* a poll that does not record the mtime it has seen
watch_poll_forgetful(t) ==
    /\ Ready
    /\ lpc[t] = "sleep"
    /\ lpc' = [lpc EXCEPT ![t] = polled(target[t], changed(target[t]))]
    /\ last_mtime' = last_mtime
    /\ touch' = counted(t, changed(target[t]))
    /\ UNCHANGED <<hot, running, thread, target, stopped, ctl, new_model,
                   before, engineVars, file, workerVars, overlayVars,
                   serverVars, box>>

\* a poll that forgets what it had observed when the file is missing
watch_poll_clearing(t) ==
    /\ Ready
    /\ lpc[t] = "sleep"
    /\ lpc' = [lpc EXCEPT ![t] = polled(target[t], changed(target[t]))]
    /\ last_mtime' = IF changed(target[t])
                     THEN [last_mtime EXCEPT ![target[t]] = Seen(file.mtime)]
                     ELSE IF file.exists THEN last_mtime
                     ELSE [last_mtime EXCEPT ![target[t]] = NoMtime]
    /\ touch' = counted(t, changed(target[t]))
    /\ UNCHANGED <<hot, running, thread, target, stopped, ctl, new_model,
                   before, engineVars, file, workerVars, overlayVars,
                   serverVars, box>>

\* a poll that calls on_change whenever there is a file
watch_poll_eager(t) ==
    /\ Ready
    /\ lpc[t] = "sleep"
    /\ lpc' = [lpc EXCEPT ![t] = polled(target[t], file.exists)]
    /\ last_mtime' = IF changed(target[t])
                     THEN [last_mtime EXCEPT ![target[t]] = Seen(file.mtime)]
                     ELSE last_mtime
    /\ touch' = counted(t, file.exists)
    /\ UNCHANGED <<hot, running, thread, target, stopped, ctl, new_model,
                   before, engineVars, file, workerVars, overlayVars,
                   serverVars, box>>

\* the sleep is over: "current_mtime = self._get_mtime()"; a missing file
\* is skipped; a greater mtime, or the first one seen, is recorded and
\* on_change, which is load_model, is entered
watch_poll(t) ==
    /\ Ready
    /\ lpc[t] = "sleep"
    /\ lpc' = [lpc EXCEPT ![t] = polled(target[t], changed(target[t]))]
    /\ last_mtime' = IF changed(target[t])
                     THEN [last_mtime EXCEPT ![target[t]] = Seen(file.mtime)]
                     ELSE last_mtime
    /\ touch' = counted(t, changed(target[t]))
    /\ UNCHANGED <<hot, running, thread, target, stopped, ctl, new_model,
                   before, engineVars, file, workerVars, overlayVars,
                   serverVars, box>>

\* an except clause of the loop that lets the thread end
on_change_raises_exit(t) ==
    /\ Ready
    /\ lpc[t] = "idle"
    /\ lpc' = [lpc EXCEPT ![t] = "exit"]
    /\ resp' = [NoResp EXCEPT !.by = t, !.op = "load_model",
                              !.out = "raised", !.err = "failed",
                              !.before = [model |-> model,
                                          version |-> model_version]]
    /\ touch' = [touch EXCEPT !.raised = TRUE]
    /\ UNCHANGED <<hot, running, last_mtime, thread, target, stopped, ctl,
                   new_model, before, engineVars, file, wk, overlayVars,
                   serverVars, box>>

\* on_change raises: "if not model_path.exists()" stands before the try of
\* load_model, and exists() raises the OSErrors that are not "not found";
\* "except Exception" in _watch_loop logs it and the loop goes on
on_change_raises(t) ==
    /\ Ready
    /\ lpc[t] = "idle"
    /\ lpc' = [lpc EXCEPT ![t] = "loop"]
    /\ resp' = [NoResp EXCEPT !.by = t, !.op = "load_model",
                              !.out = "raised", !.err = "failed",
                              !.before = [model |-> model,
                                          version |-> model_version]]
    /\ touch' = [touch EXCEPT !.raised = TRUE]
    /\ UNCHANGED <<hot, running, last_mtime, thread, target, stopped, ctl,
                   new_model, before, engineVars, file, wk, overlayVars,
                   serverVars, box>>

\* ------------------------------------------------------------------ serve

\* handle_shutdown on SIGTERM or SIGINT, in the main thread: a second
\* signal returns at "if shutdown_event"; the first sets it and calls
\* detector.stop_hot_reload()
handle_shutdown ==
    /\ Ready
    /\ ctl = NoCtl
    /\ ~shutdown_event
    /\ shutdown_event' = TRUE
    /\ stop_hot_reload_body

\* "server.stop(grace=5)", the statement after stop_hot_reload has
\* returned: the listener takes no new call, calls in flight may end
server_stop ==
    /\ Ready
    /\ shutdown_event
    /\ ctl = NoCtl
    /\ server = "serving"
    /\ server' = "draining"
    /\ UNCHANGED <<shutdown_event, box, watcherVars, loaderVars, engineVars, file,
                   workerVars, overlayVars>>

\* the server has stopped: no call is in flight, or the grace period is
\* over and the calls in flight are given up
server_stopped(grace_over) ==
    /\ Ready
    /\ server = "draining"
    /\ grace_over \/ \A w \in Workers : ~InFlight(w)
    /\ grace_over => \E w \in Workers : InFlight(w)
    /\ server' = "stopped"
    /\ UNCHANGED <<shutdown_event, box, watcherVars, loaderVars, engineVars, file,
                   workerVars, overlayVars>>

\* server.wait_for_termination() returns, serve returns, the process and
\* its daemon threads end
process_exit ==
    /\ Ready
    /\ server = "stopped"
    /\ server' = "exited"
    /\ UNCHANGED <<shutdown_event, box, watcherVars, loaderVars, engineVars, file,
                   workerVars, overlayVars>>

\* --------------------------------------------------- update_class_mapping

\* an update that keeps the entries of the ids the new mapping leaves out
update_class_mapping_merge(mapping) ==
    LET merged == [c \in DOMAIN class_mapping \cup DOMAIN mapping |->
                     IF c \in DOMAIN mapping THEN mapping[c]
                     ELSE class_mapping[c]]
    IN  /\ class_mapping' = merged
        /\ wk' = [w \in Workers |->
                    IF wk[w].hist # {}
                    THEN [wk[w] EXCEPT !.hist = @ \cup {merged}]
                    ELSE wk[w]]

\* "self._class_mapping = mapping": one assignment, no lock
update_class_mapping(mapping) ==
    /\ class_mapping' = mapping
    /\ wk' = [w \in Workers |->
                IF wk[w].hist # {}
                THEN [wk[w] EXCEPT !.hist = @ \cup {mapping}]
                ELSE wk[w]]

\* a direct call of Detector.update_class_mapping(mapping), which returns
update_class_mapping_call(mapping) ==
    /\ Ready
    /\ update_class_mapping(mapping)
    /\ resp' = [NoResp EXCEPT !.by = "caller",
                              !.op = "update_class_mapping", !.out = "ok",
                              !.arg = mapping,
                              !.dropped = (\E c \in DOMAIN class_mapping :
                                              c \notin DOMAIN mapping)]
    /\ synced' = NoSync
    /\ UNCHANGED <<engineVars, loaderVars, file, watcherVars, serverVars, box>>

\* a direct call of update_class_mapping that returns while no detection
\* is past its guard: every call reads the overlay only after the return
update_class_mapping_between_calls(mapping) ==
    /\ \A w \in Workers : wk[w].hist = {}
    /\ update_class_mapping_call(mapping)

\* ------------------------------------------- DetectionServicer.SyncClasses

\* a dict assignment that keeps the value a key already has
dict_setdefault(mapping, k, v) ==
    [c \in DOMAIN mapping \cup {k} |->
        IF c \in DOMAIN mapping THEN mapping[c] ELSE v]

\* "mapping[k] = v" on a dict
dict_set(mapping, k, v) ==
    [c \in DOMAIN mapping \cup {k} |-> IF c = k THEN v ELSE mapping[c]]

RECURSIVE build_mapping_from(_, _)
\* "for cls in request.classes: mapping[cls.class_id] = (sku_id, class_name)"
build_mapping_from(mapping, classes) ==
    IF classes = << >>
    THEN mapping
    ELSE build_mapping_from(
             dict_set(mapping, Head(classes).class_id,
                      <<Head(classes).sku_id, Head(classes).class_name>>),
             Tail(classes))

\* "mapping = {}" and the loop over request.classes
build_mapping(classes) == build_mapping_from(<< >>, classes)

\* the number of classes the request added to the overlay
sync_count_added(mapping) ==
    Cardinality(DOMAIN mapping \ DOMAIN class_mapping)

\* "class_count=len(mapping)"
sync_count(mapping) == Cardinality(DOMAIN mapping)

\* the SyncClasses RPC, on a pool thread of its own: build the mapping,
\* install it, answer
SyncClasses(classes) ==
    /\ Ready
    /\ Accepting
    /\ LET mapping == build_mapping(classes)
       IN  /\ update_class_mapping(mapping)
           /\ resp' = [NoResp EXCEPT
                        !.by = "pool", !.op = "SyncClasses", !.out = "ok",
                        !.classes = classes,
                        !.success = TRUE,
                        !.class_count = sync_count(mapping),
                        !.repeat = (synced.valid /\ synced.classes = classes)]
           /\ synced' = [valid |-> TRUE, classes |-> classes,
                         class_count |-> sync_count(mapping)]
    /\ UNCHANGED <<engineVars, loaderVars, file, watcherVars, serverVars, box>>

\* ----------------------------------------------------------------- detect

\* what the caller of call c on worker w gets
Result(c, w, out, err) ==
    [NoResp EXCEPT !.by = w, !.op = c.op, !.out = out, !.err = err,
                   !.boxes = c.boxes, !.names = c.names, !.skus = c.skus,
                   !.reads = c.reads, !.v0 = c.v0, !.version = c.version,
                   !.hist = c.hist,
                   !.req_conf = c.req_conf, !.req_iou = c.req_iou,
                   !.conf = c.conf, !.iou = c.iou]

\* an exception leaves detect: a direct caller sees it raised, the
\* servicer's "except Exception" turns it into an INTERNAL fault
Raised(w, cause) ==
    /\ wk' = [wk EXCEPT ![w] = IdleCall]
    /\ resp' = Result(wk[w], w,
                      IF wk[w].op = "Detect" THEN "INTERNAL" ELSE "raised",
                      cause)

\* a direct call of Detector.detect(image_bytes, confidence_threshold,
\* iou_threshold)
detect_call(w, ct, it) ==
    /\ Ready
    /\ ~InFlight(w)
    /\ wk' = [wk EXCEPT ![w] = [IdleCall EXCEPT
                 !.op = "detect", !.pc = "guard",
                 !.req_conf = ct, !.req_iou = it,
                 !.conf_arg = ct, !.iou_arg = it]]
    /\ UNCHANGED <<resp, engineVars, loaderVars, file, watcherVars, serverVars, box, overlayVars>>

\* "with self._model_lock: if self._model is None: raise RuntimeError",
\* then "conf = confidence_threshold or self.config.default_confidence" and
\* the same for iou
detect_guard(w) ==
    /\ Ready
    /\ wk[w].pc = "guard"
    /\ GuardAvailable(w)
    /\ IF model = None
       THEN /\ Raised(w, "not_loaded")
            /\ model_lock' = unwind(w)
       ELSE /\ wk' = [wk EXCEPT ![w] = [wk[w] EXCEPT
                         !.pc = "decode", !.reads = {model},
                         !.v0 = model_version,
                         !.hist = {class_mapping},
                         !.conf = python_or(wk[w].conf_arg,
                                            DefaultConfidence),
                         !.iou = python_or(wk[w].iou_arg, DefaultIou)]]
            /\ model_lock' = w
            /\ UNCHANGED resp
    /\ UNCHANGED <<model, model_version, complete, loaderVars, file, watcherVars, serverVars, box,
                   overlayVars>>

\* Image.open(io.BytesIO(image_bytes)) and the conversion to RGB
detect_decode(w, img) ==
    /\ Ready
    /\ wk[w].pc = "decode"
    /\ IF img = "bad"
       THEN /\ Raised(w, "decode")
            /\ model_lock' = unwind(w)
       ELSE /\ wk' = [wk EXCEPT ![w] = [wk[w] EXCEPT !.pc = "predict"]]
            /\ UNCHANGED <<model_lock, resp>>
    /\ UNCHANGED <<model, model_version, complete, loaderVars, file, watcherVars, serverVars, box,
                   overlayVars>>

\* results = self._model.predict(image, ...): raises, or returns boxes
detect_predict(w, fails, bs) ==
    /\ Ready
    /\ wk[w].pc = "predict"
    /\ IF fails
       THEN /\ bs = << >>
            /\ Raised(w, "inference")
            /\ model_lock' = unwind(w)
       ELSE /\ wk' = [wk EXCEPT ![w] = [wk[w] EXCEPT
                         !.reads = @ \cup {model}, !.boxes = bs, !.i = 1,
                         !.pc = IF bs = << >> THEN "ret" ELSE "member"]]
            /\ UNCHANGED <<model_lock, resp>>
    /\ UNCHANGED <<model, model_version, complete, loaderVars, file, watcherVars, serverVars, box,
                   overlayVars>>

\* "if class_id in self._class_mapping": the first read of the overlay
detect_member(w) ==
    /\ Ready
    /\ wk[w].pc = "member"
    /\ wk' = [wk EXCEPT ![w] = [wk[w] EXCEPT
                 !.hit = wk[w].boxes[wk[w].i] \in DOMAIN class_mapping,
                 !.pc = "lookup"]]
    /\ UNCHANGED <<resp, engineVars, loaderVars, file, watcherVars, serverVars, box, overlayVars>>

\* "_, class_name = self._class_mapping[class_id]" (the second read of the
\* overlay, KeyError when the id is gone) or self._model.names.get(...)
detect_lookup(w) ==
    /\ Ready
    /\ wk[w].pc = "lookup"
    /\ LET c == wk[w].boxes[wk[w].i]
           next == IF wk[w].i = Len(wk[w].boxes) THEN "ret" ELSE "member"
       IN  IF wk[w].hit /\ c \notin DOMAIN class_mapping
           THEN /\ Raised(w, "key")
                /\ model_lock' = unwind(w)
           ELSE /\ wk' = [wk EXCEPT ![w] = [wk[w] EXCEPT
                         !.names = Append(@,
                             IF wk[w].hit THEN class_mapping[c][2]
                             ELSE names_get(model, c)),
                         !.reads = IF wk[w].hit THEN @ ELSE @ \cup {model},
                         !.i = @ + 1,
                         !.hit = FALSE,
                         !.pc = next]]
                /\ UNCHANGED <<model_lock, resp>>
    /\ UNCHANGED <<model, model_version, complete, loaderVars, file, watcherVars, serverVars, box,
                   overlayVars>>

\* "return InferenceResult(..., model_version=self._model_version)" and the
\* end of the with block; the servicer goes on to build its response
detect_return(w) ==
    /\ Ready
    /\ wk[w].pc = "ret"
    /\ LET c == [wk[w] EXCEPT !.version = model_version, !.i = 1]
       IN  IF wk[w].op = "detect" \/ wk[w].boxes = << >>
           THEN /\ wk' = [wk EXCEPT ![w] = IdleCall]
                /\ resp' = Result(c, w, "ok", "none")
           ELSE /\ wk' = [wk EXCEPT ![w] = [c EXCEPT !.pc = "sku_member"]]
                /\ UNCHANGED resp
    /\ model_lock' = Free
    /\ UNCHANGED <<model, model_version, complete, loaderVars, file, watcherVars, serverVars, box,
                   overlayVars>>

\* ------------------------------------------------ DetectionServicer.Detect

\* the Detect RPC is dispatched on a worker; the request carries the two
\* thresholds as numbers, 0 when the caller set none
Detect_call(w, rc, ri) ==
    /\ Ready
    /\ Accepting
    /\ ~InFlight(w)
    /\ wk' = [wk EXCEPT ![w] = [IdleCall EXCEPT
                 !.op = "Detect", !.pc = "check",
                 !.req_conf = Threshold(rc), !.req_iou = Threshold(ri)]]
    /\ UNCHANGED <<resp, engineVars, loaderVars, file, watcherVars, serverVars, box, overlayVars>>

\* "if not self.detector.model_loaded: ... UNAVAILABLE", else the two
\* thresholds are prepared and self.detector.detect(...) is called
Detect_check(w) ==
    /\ Ready
    /\ wk[w].pc = "check"
    /\ GuardAvailable(w)
    /\ IF model_loaded
       THEN /\ wk' = [wk EXCEPT ![w] = [wk[w] EXCEPT
                         !.pc = "guard",
                         !.conf_arg = servicer_threshold(wk[w].req_conf.val),
                         !.iou_arg = servicer_threshold(wk[w].req_iou.val)]]
            /\ UNCHANGED resp
       ELSE /\ wk' = [wk EXCEPT ![w] = IdleCall]
            /\ resp' = Result(wk[w], w, "UNAVAILABLE", "not_loaded")
    /\ UNCHANGED <<engineVars, loaderVars, file, watcherVars, serverVars, box, overlayVars>>

\* "if det.class_id in self.detector._class_mapping"
Detect_sku_member(w) ==
    /\ Ready
    /\ wk[w].pc = "sku_member"
    /\ wk' = [wk EXCEPT ![w] = [wk[w] EXCEPT
                 !.hit = wk[w].boxes[wk[w].i] \in DOMAIN class_mapping,
                 !.pc = "sku_lookup"]]
    /\ UNCHANGED <<resp, engineVars, loaderVars, file, watcherVars, serverVars, box, overlayVars>>

\* "sku_id = self.detector._class_mapping[det.class_id][0]", else "", and
\* after the last detection the DetectResponse
Detect_sku_lookup(w) ==
    /\ Ready
    /\ wk[w].pc = "sku_lookup"
    /\ LET c == wk[w].boxes[wk[w].i]
           r == [wk[w] EXCEPT
                   !.skus = Append(@,
                       IF wk[w].hit THEN class_mapping[c][1] ELSE ""),
                   !.i = @ + 1,
                   !.hit = FALSE,
                   !.pc = "sku_member"]
       IN  IF wk[w].hit /\ c \notin DOMAIN class_mapping
           THEN Raised(w, "key")
           ELSE IF wk[w].i = Len(wk[w].boxes)
                THEN /\ wk' = [wk EXCEPT ![w] = IdleCall]
                     /\ resp' = Result(r, w, "ok", "none")
                ELSE /\ wk' = [wk EXCEPT ![w] = r]
                     /\ UNCHANGED resp
    /\ UNCHANGED <<engineVars, loaderVars, file, watcherVars, serverVars, box, overlayVars>>

\* ------------------------------------------- DetectionServicer.HealthCheck

\* the status string for the model_loaded that was read
health_status(loaded) == IF loaded THEN "healthy" ELSE "model_not_loaded"

\* model_loaded is read once, under the lock; the rest is local
HealthCheck(w) ==
    /\ Ready
    /\ Accepting
    /\ ~InFlight(w)
    /\ GuardAvailable(w)
    /\ resp' = [NoResp EXCEPT
                 !.by = w, !.op = "HealthCheck", !.out = "ok",
                 !.loaded = model_loaded,
                 !.healthy = (health_status(model_loaded) = "healthy"),
                 !.status = health_status(model_loaded)]
    /\ UNCHANGED <<wk, engineVars, loaderVars, file, watcherVars, serverVars, box, overlayVars>>

\* ------------------------------------------------------------------- Next
\* the caller takes the result
Deliver ==
    /\ resp # NoResp
    /\ resp' = NoResp
    /\ UNCHANGED <<file, watcherVars, serverVars, box, engineVars, loaderVars, wk, overlayVars>>

\* the engine with its model file: the file is written and removed, loads,
\* detections and health checks run, the overlay stays as constructed
Next ==
    \/ \E c \in Contents, mt \in Mtimes : FileWrite(c, mt)
    \/ FileDelete
    \/ \E t \in Loaders : load_model_not_found(t)
    \/ \E t \in Loaders : load_model_begin(t)
    \/ \E t \in Loaders : load_model_deserialize(t)
    \/ \E t \in Loaders, fails \in BOOLEAN : load_model_warmup(t, fails)
    \/ \E t \in Loaders : load_model_install(t)
    \/ \E t \in Loaders : load_model_version(t)
    \/ \E t \in Loaders : load_model_log(t)
    \/ \E w \in Workers : detect_call(w, NoThreshold, NoThreshold)
    \/ \E w \in Workers : detect_guard(w)
    \/ \E w \in Workers, img \in Images : detect_decode(w, img)
    \/ \E w \in Workers, bs \in BoxSeqs : detect_predict(w, FALSE, bs)
    \/ \E w \in Workers : detect_predict(w, TRUE, << >>)
    \/ \E w \in Workers : detect_member(w)
    \/ \E w \in Workers : detect_lookup(w)
    \/ \E w \in Workers : detect_return(w)
    \/ \E w \in Workers : Detect_call(w, 0, 0)
    \/ \E w \in Workers : Detect_check(w)
    \/ \E w \in Workers : Detect_sku_member(w)
    \/ \E w \in Workers : Detect_sku_lookup(w)
    \/ \E w \in Workers : HealthCheck(w)
    \/ Deliver

Spec == Init /\ [][Next]_vars

\* the engine after a successful load_model of a file that then stays as
\* it is, with class syncs arriving while Detect calls run
NextOverlay ==
    \/ \E m \in Overlays : update_class_mapping_call(m)
    \/ \E w \in Workers : detect_call(w, NoThreshold, NoThreshold)
    \/ \E w \in Workers : detect_guard(w)
    \/ \E w \in Workers, img \in Images : detect_decode(w, img)
    \/ \E w \in Workers, bs \in BoxSeqs : detect_predict(w, FALSE, bs)
    \/ \E w \in Workers : detect_predict(w, TRUE, << >>)
    \/ \E w \in Workers : detect_member(w)
    \/ \E w \in Workers : detect_lookup(w)
    \/ \E w \in Workers : detect_return(w)
    \/ \E w \in Workers : Detect_call(w, 0, 0)
    \/ \E w \in Workers : Detect_check(w)
    \/ \E w \in Workers : Detect_sku_member(w)
    \/ \E w \in Workers : Detect_sku_lookup(w)
    \/ Deliver

SpecOverlay == InitLoaded /\ [][NextOverlay]_vars

\* the engine with its model file and its overlay: the file is written and
\* removed, loads run, and the overlay is replaced between their steps
NextEngine ==
    \/ \E c \in Contents, mt \in Mtimes : FileWrite(c, mt)
    \/ FileDelete
    \/ \E t \in Loaders : load_model_not_found(t)
    \/ \E t \in Loaders : load_model_begin(t)
    \/ \E t \in Loaders : load_model_deserialize(t)
    \/ \E t \in Loaders, fails \in BOOLEAN : load_model_warmup(t, fails)
    \/ \E t \in Loaders : load_model_install(t)
    \/ \E t \in Loaders : load_model_version(t)
    \/ \E t \in Loaders : load_model_log(t)
    \/ \E m \in Overlays : update_class_mapping_call(m)
    \/ Deliver

SpecEngine == Init /\ [][NextEngine]_vars

\* a loaded engine whose overlay is replaced between detections: every
\* call takes its guard after the update before it has returned
NextReplace ==
    \/ \E m \in Overlays : update_class_mapping_between_calls(m)
    \/ \E w \in Workers, ct, it \in ThresholdArgs : detect_call(w, ct, it)
    \/ \E w \in Workers : detect_guard(w)
    \/ \E w \in Workers, img \in Images : detect_decode(w, img)
    \/ \E w \in Workers, bs \in BoxSeqs : detect_predict(w, FALSE, bs)
    \/ \E w \in Workers : detect_predict(w, TRUE, << >>)
    \/ \E w \in Workers : detect_member(w)
    \/ \E w \in Workers : detect_lookup(w)
    \/ \E w \in Workers : detect_return(w)
    \/ \E w \in Workers, rc, ri \in ThresholdValues : Detect_call(w, rc, ri)
    \/ \E w \in Workers : Detect_check(w)
    \/ \E w \in Workers : Detect_sku_member(w)
    \/ \E w \in Workers : Detect_sku_lookup(w)
    \/ Deliver

SpecReplace == InitLoaded /\ [][NextReplace]_vars

\* the overlay of a loaded engine: class syncs and direct updates arrive
\* one after another
NextSync ==
    \/ \E classes \in Requests : SyncClasses(classes)
    \/ \E m \in Overlays : update_class_mapping_call(m)
    \/ Deliver

SpecSync == InitLoaded /\ [][NextSync]_vars

\* a loaded engine whose callers choose the thresholds of their calls
NextThreshold ==
    \/ \E w \in Workers, ct, it \in ThresholdArgs : detect_call(w, ct, it)
    \/ \E w \in Workers : detect_guard(w)
    \/ \E w \in Workers, img \in Images : detect_decode(w, img)
    \/ \E w \in Workers, bs \in BoxSeqs : detect_predict(w, FALSE, bs)
    \/ \E w \in Workers : detect_predict(w, TRUE, << >>)
    \/ \E w \in Workers : detect_member(w)
    \/ \E w \in Workers : detect_lookup(w)
    \/ \E w \in Workers : detect_return(w)
    \/ \E w \in Workers, rc, ri \in ThresholdValues : Detect_call(w, rc, ri)
    \/ \E w \in Workers : Detect_check(w)
    \/ \E w \in Workers : Detect_sku_member(w)
    \/ \E w \in Workers : Detect_sku_lookup(w)
    \/ Deliver

SpecThreshold == InitLoaded /\ [][NextThreshold]_vars

\* the engine under hot reload: the file is written and removed, the
\* watcher is started and stopped, it polls, and its callback load_model
\* runs on the watcher's thread
NextWatcher ==
    \/ \E c \in Contents, mt \in Mtimes : FileWrite(c, mt)
    \/ FileDelete
    \/ start_hot_reload("m1", Watcher)
    \/ stop_hot_reload
    \/ join
    \/ watch_loop(Watcher)
    \/ watch_poll(Watcher)
    \/ on_change_raises(Watcher)
    \/ load_model_not_found(Watcher)
    \/ load_model_begin(Watcher)
    \/ load_model_deserialize(Watcher)
    \/ \E fails \in BOOLEAN : load_model_warmup(Watcher, fails)
    \/ load_model_install(Watcher)
    \/ load_model_version(Watcher)
    \/ load_model_log(Watcher)
    \/ Deliver

SpecWatcher == InitWatched /\ [][NextWatcher]_vars

\* one ModelWatcher that its owner starts and stops again and again;
\* every start that finds it stopped makes a thread
NextInstance ==
    \/ \E mt \in Mtimes : FileWrite("b", mt)
    \/ \E t \in WatchThreads : start("m1", t)
    \/ stop("m1")
    \/ join
    \/ \E t \in WatchThreads : watch_loop(t)
    \/ \E t \in WatchThreads : watch_poll(t)
    \/ \E t \in WatchThreads : load_model_begin(t)
    \/ \E t \in WatchThreads : load_model_deserialize(t)
    \/ \E t \in WatchThreads, fails \in BOOLEAN : load_model_warmup(t, fails)
    \/ \E t \in WatchThreads : load_model_install(t)
    \/ \E t \in WatchThreads : load_model_version(t)
    \/ \E t \in WatchThreads : load_model_log(t)
    \/ Deliver

\* serve: "if config.model.model_path.exists(): detector.load_model()",
\* the first statement that touches the engine
serve_load_model ==
    /\ ~model_loaded
    /\ hot = None
    /\ load_model_begin("main")

\* serve: "detector.start_hot_reload()", after load_model has returned
serve_start_hot_reload ==
    /\ model_loaded
    /\ lpc["main"] = "idle"
    /\ start_hot_reload("m1", Watcher)

\* the steps of the main thread in serve's startup
StartupMain ==
    \/ serve_load_model
    \/ load_model_deserialize("main")
    \/ load_model_warmup("main", FALSE)
    \/ load_model_install("main")
    \/ load_model_version("main")
    \/ load_model_log("main")
    \/ serve_start_hot_reload

\* the steps of the watcher's thread
StartupWatcher ==
    \/ watch_loop(Watcher)
    \/ watch_poll(Watcher)
    \/ load_model_begin(Watcher)
    \/ load_model_deserialize(Watcher)
    \/ load_model_warmup(Watcher, FALSE)
    \/ load_model_install(Watcher)
    \/ load_model_version(Watcher)
    \/ load_model_log(Watcher)

\* serve's startup wiring, with the file replaced by loadable files of
\* greater mtime at any moment: the initial load, then the watcher
NextStartup ==
    \/ \E c \in Good, mt \in Mtimes : FileReplace(c, mt)
    \/ serve_load_model
    \/ load_model_deserialize("main")
    \/ load_model_warmup("main", FALSE)
    \/ load_model_install("main")
    \/ load_model_version("main")
    \/ load_model_log("main")
    \/ serve_start_hot_reload
    \/ watch_loop(Watcher)
    \/ watch_poll(Watcher)
    \/ load_model_begin(Watcher)
    \/ load_model_deserialize(Watcher)
    \/ load_model_warmup(Watcher, FALSE)
    \/ load_model_install(Watcher)
    \/ load_model_version(Watcher)
    \/ load_model_log(Watcher)
    \/ Deliver

\* the main thread and the watcher's daemon thread are both scheduled
\* again and again, and every result is taken
SpecStartup ==
    /\ InitStartup /\ [][NextStartup]_vars
    /\ WF_vars(StartupMain)
    /\ WF_vars(StartupWatcher)
    /\ WF_vars(Deliver)

\* the predictions and overlays that tell the paths through the guarded
\* section of detect apart: no box or one box of class 0, an overlay that
\* names class 0 or none
GuardBoxSeqs == {bs \in BoxSeqs : Len(bs) <= 1 /\ \A k \in DOMAIN bs : bs[k] = 0}

GuardOverlays == {m \in Overlays : DOMAIN m \subseteq {0}}

\* the steps of a detect call after its dispatch, on worker w
detect_steps(w) ==
    \/ detect_guard(w)
    \/ \E img \in Images : detect_decode(w, img)
    \/ \E bs \in GuardBoxSeqs : detect_predict(w, FALSE, bs)
    \/ detect_predict(w, TRUE, << >>)
    \/ detect_member(w)
    \/ detect_lookup(w)
    \/ detect_return(w)

\* the steps of a load_model call after its first statement, on thread t
load_model_steps(t) ==
    \/ load_model_deserialize(t)
    \/ \E fails \in BOOLEAN : load_model_warmup(t, fails)
    \/ load_model_install(t)
    \/ load_model_version(t)
    \/ load_model_log(t)

\* the engine's guarded sections side by side: a load, a detection, the
\* model_loaded read of a health check and overlay updates, with the file
\* written and removed
NextGuard ==
    \/ \E c \in Contents : FileWrite(c, 0)
    \/ FileDelete
    \/ \E t \in Loaders : load_model_not_found(t)
    \/ \E t \in Loaders : load_model_begin(t)
    \/ \E t \in Loaders : load_model_deserialize(t)
    \/ \E t \in Loaders, fails \in BOOLEAN : load_model_warmup(t, fails)
    \/ \E t \in Loaders : load_model_install(t)
    \/ \E t \in Loaders : load_model_version(t)
    \/ \E t \in Loaders : load_model_log(t)
    \/ \E w \in Workers : detect_call(w, NoThreshold, NoThreshold)
    \/ \E w \in Workers : detect_guard(w)
    \/ \E w \in Workers, img \in Images : detect_decode(w, img)
    \/ \E w \in Workers, bs \in GuardBoxSeqs : detect_predict(w, FALSE, bs)
    \/ \E w \in Workers : detect_predict(w, TRUE, << >>)
    \/ \E w \in Workers : detect_member(w)
    \/ \E w \in Workers : detect_lookup(w)
    \/ \E w \in Workers : detect_return(w)
    \/ \E w \in Workers : HealthCheck(w)
    \/ \E m \in GuardOverlays : update_class_mapping_call(m)
    \/ Deliver

\* fair scheduling: a thread whose next statement can run again and again,
\* the acquisition of the guard included, does run it, and every result
\* is taken
SpecGuard ==
    /\ Init /\ [][NextGuard]_vars
    /\ \A w \in Workers : SF_vars(detect_steps(w))
    /\ \A t \in Loaders : SF_vars(load_model_steps(t))
    /\ WF_vars(Deliver)

\* the serving process receives a termination signal: the watcher polls
\* and reloads, calls arrive and are answered, handle_shutdown runs
NextShutdown ==
    \/ \E mt \in Mtimes : FileWrite("b", mt)
    \/ watch_loop(Watcher)
    \/ watch_poll(Watcher)
    \/ load_model_begin(Watcher)
    \/ load_model_deserialize(Watcher)
    \/ \E fails \in BOOLEAN : load_model_warmup(Watcher, fails)
    \/ load_model_install(Watcher)
    \/ load_model_version(Watcher)
    \/ load_model_log(Watcher)
    \/ \E w \in Workers : Detect_call(w, 0, 0)
    \/ \E w \in Workers : Detect_check(w)
    \/ \E w \in Workers : detect_guard(w)
    \/ \E w \in Workers : detect_decode(w, "ok")
    \/ \E w \in Workers, bs \in BoxSeqs : detect_predict(w, FALSE, bs)
    \/ \E w \in Workers : detect_member(w)
    \/ \E w \in Workers : detect_lookup(w)
    \/ \E w \in Workers : detect_return(w)
    \/ \E w \in Workers : Detect_sku_member(w)
    \/ \E w \in Workers : Detect_sku_lookup(w)
    \/ handle_shutdown
    \/ join
    \/ server_stop
    \/ \E grace_over \in BOOLEAN : server_stopped(grace_over)
    \/ process_exit
    \/ Deliver

SpecShutdown == InitServing /\ [][NextShutdown]_vars

\* detect normalizes one box of a prediction
NextBox == normalize

SpecBox == InitBox /\ [][NextBox]_vars

SpecInstance == InitWatched /\ [][NextInstance]_vars

\* hot reload stopped and started again through the Detector, which makes
\* a new ModelWatcher, with a new thread, each time
NextRestart ==
    \/ \E mt \in Mtimes : FileWrite("b", mt)
    \/ \E i \in Instances, t \in WatchThreads : start_hot_reload(i, t)
    \/ stop_hot_reload
    \/ join
    \/ \E t \in WatchThreads : watch_loop(t)
    \/ \E t \in WatchThreads : watch_poll(t)
    \/ \E t \in WatchThreads : load_model_begin(t)
    \/ \E t \in WatchThreads : load_model_deserialize(t)
    \/ \E t \in WatchThreads, fails \in BOOLEAN : load_model_warmup(t, fails)
    \/ \E t \in WatchThreads : load_model_install(t)
    \/ \E t \in WatchThreads : load_model_version(t)
    \/ \E t \in WatchThreads : load_model_log(t)
    \/ Deliver

SpecRestart == InitWatched /\ [][NextRestart]_vars

\* ----------------------------------------------------------- the claims

DetectOk == resp.op \in {"detect", "Detect"} /\ resp.out = "ok"

\* the handle a finished call worked with
UsedModel == CHOOSE m \in resp.reads : TRUE

\* the display name the overlay o gives class id c on model m
display_name(o, m, c) ==
    IF c \in DOMAIN o THEN o[c][2] ELSE names_get(m, c)

\* the external id the overlay o gives class id c
external_id(o, c) == IF c \in DOMAIN o THEN o[c][1] ELSE ""

\* C1: the model_version of every result of detect is the version of a
\* handle whose install had run to its end (model and version both set)
\* before the call took the guard.
C1_VersionOfInstalledHandle == DetectOk => resp.version \in complete

\* C2: a detect call reads one single model from its guard to its return,
\* and returns the version that was installed when it took the guard.
C2_SingleHandle ==
    (resp.op \in {"detect", "Detect"} /\ resp.reads # {}) =>
        /\ Cardinality(resp.reads) = 1
        /\ resp.out = "ok" => resp.version = resp.v0

\* a detection returned while a reload of another content was waiting for
\* the guard
C2_Witness ==
    /\ DetectOk
    /\ \E t \in Loaders : lpc[t] = "install" /\ new_model[t] \notin resp.reads

\* C3: all names and external ids of one Detect response are those of one
\* single overlay that was in force during the call.
C3_OneOverlayPerResponse ==
    (resp.op = "Detect" /\ resp.out = "ok") =>
        \E o \in resp.hist :
            \A i \in 1 .. Len(resp.boxes) :
                /\ resp.names[i] = display_name(o, UsedModel, resp.boxes[i])
                /\ resp.skus[i] = external_id(o, resp.boxes[i])

\* C4: when load_model returns False, model and version are what they were
\* when the call began.
C4_FailedLoadKeepsHandle ==
    (resp.op = "load_model" /\ resp.out = "False") =>
        /\ model = resp.before.model
        /\ model_version = resp.before.version

\* C5: a load_model that finds the file missing returns False and leaves
\* model_loaded and the version of get_model_info as they were.
C5_MissingPathReload ==
    [][\A t \in Loaders :
          (lpc[t] = "idle" /\ ~file.exists /\ resp = NoResp
             /\ resp'.by = t /\ resp'.op = "load_model") =>
              /\ resp'.out = "False"
              /\ model_loaded' = model_loaded
              /\ get_model_info'.version = get_model_info.version]_vars

\* a reload found the file gone while a model was installed
C5_Witness ==
    /\ resp.op = "load_model" /\ resp.err = "not_found"
    /\ resp.out = "False"
    /\ model_loaded

\* C6: a direct detect call raises "Model not loaded" exactly when no
\* install has run to its end by the time the call takes the guard.
C6_NotLoadedIffNeverInstalled ==
    resp.op = "detect" => ((resp.err = "not_loaded") <=> (complete = {}))

\* C7: HealthCheck answers healthy = model_loaded = (a model is installed),
\* with status healthy or model_not_loaded accordingly.
C7_HealthTracksInstalledModel ==
    resp.op = "HealthCheck" =>
        /\ resp.healthy = resp.loaded
        /\ resp.loaded = (model # None)
        /\ resp.status = IF model # None THEN "healthy"
                         ELSE "model_not_loaded"

\* a health check answered healthy after a model was installed
C7_Witness ==
    /\ resp.op = "HealthCheck"
    /\ resp.healthy /\ resp.status = "healthy" /\ resp.loaded

\* C8: the Detect RPC never reports "Model not loaded" as INTERNAL: the
\* not-loaded condition is always UNAVAILABLE.
C8_NotLoadedIsUnavailable ==
    resp.op = "Detect" =>
        /\ resp.err = "not_loaded" => resp.out = "UNAVAILABLE"
        /\ resp.out = "UNAVAILABLE" => resp.err = "not_loaded"

\* a Detect RPC was refused as UNAVAILABLE while a load was in progress
C8_Witness ==
    /\ resp.op = "Detect" /\ resp.out = "UNAVAILABLE"
    /\ \E t \in Loaders : lpc[t] # "idle"

\* C9: a detect call that fails in decoding or inference is an INTERNAL
\* fault of that call; the step leaves model, version, overlay, file and
\* the loaders as they were, the guard free and the worker ready.
C9_FailedDetectIsLocal ==
    [][\A w \in Workers :
          (resp = NoResp /\ resp'.by = w
             /\ resp'.err \in {"decode", "inference"}) =>
              /\ resp'.op = "Detect" => resp'.out = "INTERNAL"
              /\ resp'.op = "detect" => resp'.out = "raised"
              /\ model' = model /\ model_version' = model_version
              /\ class_mapping' = class_mapping
              /\ model_lock' = Free
              /\ wk'[w] = IdleCall
              /\ UNCHANGED <<loaderVars, file, watcherVars, serverVars, box>>]_vars

\* a Detect RPC failed in decoding or inference on an installed model
C9_Witness ==
    /\ resp.op = "Detect" /\ resp.out = "INTERNAL"
    /\ resp.err \in {"decode", "inference"}
    /\ model_loaded /\ model_lock = Free

\* C10: every detection of a Detect response carries the name and the
\* external id of its class id's entry in an overlay in force during the
\* call, or the intrinsic name and "" when that overlay has no entry.
C10_ResolvedFromOverlayInForce ==
    (resp.op = "Detect" /\ resp.out = "ok") =>
        \A i \in 1 .. Len(resp.boxes) :
            \E o \in resp.hist :
                LET c == resp.boxes[i]
                IN  IF c \in DOMAIN o
                    THEN resp.names[i] = o[c][2] /\ resp.skus[i] = o[c][1]
                    ELSE /\ resp.names[i] = names_get(UsedModel, c)
                         /\ resp.skus[i] = ""

\* C11: when update_class_mapping(m) has returned the overlay is exactly m,
\* with no entry of the overlay before it left, and every detection issued
\* after that return (and before another update) resolves all its names and
\* external ids with m: the entry of m, or the intrinsic name and "" for a
\* class id m does not have.
C11_FullReplace ==
    /\ resp.op = "update_class_mapping" => class_mapping = resp.arg
    /\ DetectOk =>
          /\ resp.hist = {class_mapping}
          /\ \A i \in 1 .. Len(resp.names) :
                resp.names[i] =
                    display_name(class_mapping, UsedModel, resp.boxes[i])
    /\ (resp.op = "Detect" /\ resp.out = "ok") =>
          \A i \in 1 .. Len(resp.skus) :
              resp.skus[i] = external_id(class_mapping, resp.boxes[i])

\* an update has replaced an overlay by one that lacks one of its class ids
C11_Witness ==
    /\ resp.op = "update_class_mapping"
    /\ resp.dropped
    /\ class_mapping = resp.arg

\* C12: no step of load_model, whether the call succeeds or fails, changes
\* the overlay, and update_class_mapping changes neither the installed
\* model nor its version.
C12_OverlayAndHandleIndependent ==
    [][/\ (\E t \in Loaders :
              \/ lpc'[t] # lpc[t]
              \/ (resp = NoResp /\ resp'.op = "load_model"))
           => class_mapping' = class_mapping
       /\ (resp = NoResp /\ resp'.op = "update_class_mapping")
           => (model' = model /\ model_version' = model_version)]_vars

\* a reload has installed another model while an overlay was in place
C12_Witness ==
    /\ resp.op = "load_model" /\ resp.out = "True"
    /\ resp.before.model # None /\ model # resp.before.model
    /\ class_mapping # << >>

\* C13: a SyncClasses that repeats the class list of the SyncClasses
\* before it (nothing else having replaced the overlay between the two)
\* leaves the overlay as the first call left it and answers the same
\* class_count.
C13_SyncIdempotent ==
    [][(resp = NoResp /\ resp'.op = "SyncClasses" /\ synced.valid
          /\ synced.classes = resp'.classes) =>
           /\ class_mapping' = class_mapping
           /\ resp'.class_count = synced.class_count
           /\ resp'.success]_vars

\* the second of two equal class syncs with a full list has answered
C13_Witness ==
    /\ resp.op = "SyncClasses" /\ resp.repeat
    /\ Len(resp.classes) = MaxTriples
    /\ resp.class_count > 0
    /\ resp.class_count = Cardinality(DOMAIN class_mapping)

\* C14: SyncClasses answers success = true and class_count = the number of
\* entries of the overlay it installed; that overlay has exactly the class
\* ids of the request, each with the sku and name of the last triple that
\* carries it, so class_count is at most the number of triples.
C14_SyncCountsEntries ==
    resp.op = "SyncClasses" =>
        LET ids == {resp.classes[i].class_id : i \in DOMAIN resp.classes}
            last(c) == CHOOSE i \in DOMAIN resp.classes :
                          /\ resp.classes[i].class_id = c
                          /\ \A j \in DOMAIN resp.classes :
                                 resp.classes[j].class_id = c => j <= i
        IN  /\ resp.success
            /\ resp.class_count = Cardinality(DOMAIN class_mapping)
            /\ DOMAIN class_mapping = ids
            /\ \A c \in ids :
                  class_mapping[c] = <<resp.classes[last(c)].sku_id,
                                       resp.classes[last(c)].class_name>>
            /\ resp.class_count <= Len(resp.classes)

\* a class sync whose list repeats a class id with another entry was
\* counted once
C14_Witness ==
    /\ resp.op = "SyncClasses" /\ resp.success
    /\ resp.class_count < Len(resp.classes)
    /\ \E i, j \in DOMAIN resp.classes :
          /\ i < j
          /\ resp.classes[i].class_id = resp.classes[j].class_id
          /\ resp.classes[i].sku_id # resp.classes[j].sku_id

\* C16: while no load_model has succeeded (a fresh engine, or one on which
\* every load so far has failed) model_loaded is False, model_version is
\* "unknown", class_names is empty and get_model_info is the sentinel with
\* the configured input size; once a load has succeeded get_model_info
\* has the installed version and the class names of the installed model.
C16_NoModelSentinel ==
    (\A t \in Loaders : lpc[t] = "idle") =>
        IF complete = {}
        THEN /\ ~model_loaded
             /\ model_version = Unknown
             /\ class_names = << >>
             /\ get_model_info = NoModelInfo
        ELSE /\ get_model_info.version = model_version
             /\ get_model_info.class_names = class_names
             /\ get_model_info.input_size = InputSize

\* C17: a load_model call that found the file and whose deserialization
\* and warm-up succeeded installs its model with the version "v" + the
\* whole seconds of the file's mtime, so that model_loaded is True and
\* class_names are those of the new model, and returns True.
C17_LoadSucceeds ==
    [][\A t \in Loaders :
          /\ (lpc[t] = "version" /\ lpc'[t] # "version") =>
                /\ lpc'[t] = "log"
                /\ model_loaded'
                /\ class_names' = [c \in ClassIds |->
                                     names_get(new_model[t], c)]
                /\ model_version' = compute_version(file.mtime)
          /\ (lpc[t] = "log" /\ lpc'[t] # "log") =>
                /\ resp'.op = "load_model" /\ resp'.out = "True"
                /\ model_loaded']_vars

\* C18: the model guard is not held for the duration of a detect call: a
\* worker inside the inference step does not own it, so that the detect
\* calls of other workers need not wait for it.
C18_GuardFreeDuringInference ==
    \A w \in Workers : wk[w].pc = "predict" => model_lock # w

\* C19: a load_model call owns the model guard only between the assignment
\* of the model and the assignment of the version; while it deserializes,
\* warms up or waits to install it does not own the guard, so a detect call
\* waiting for the guard is then never waiting for the reload.
C19_ReloadLocksOnlyInstall ==
    \A t \in Loaders :
        /\ model_lock = t => lpc[t] = "version"
        /\ lpc[t] \in {"deser", "warm", "install"} =>
              \A w \in Workers :
                  wk[w].pc = "guard" => (model_lock = Free \/ model_lock = w)

\* a detect call is in its inference step, owning the guard, while a reload
\* of another model is warming up
C19_Witness ==
    \E t \in Loaders, w \in Workers :
        /\ lpc[t] = "warm"
        /\ wk[w].pc = "predict" /\ model_lock = w
        /\ new_model[t] # model

\* the threshold a call is to run with: the caller's when it is given and
\* strictly positive, else the configured default
threshold_in_force(x, default) ==
    IF x.given /\ x.val > 0 THEN x.val ELSE default

\* C20: the inference of every Detect RPC and of every direct detect call
\* ran with the caller's confidence and IoU thresholds where they were
\* given and strictly positive, and with the configured defaults where they
\* were absent, zero or negative.
C20_ThresholdsOrDefaults ==
    DetectOk =>
        /\ resp.conf = threshold_in_force(resp.req_conf, DefaultConfidence)
        /\ resp.iou = threshold_in_force(resp.req_iou, DefaultIou)

\* C15: with the watcher running, one single increase of the file's mtime
\* makes the watcher invoke the reload callback exactly once, however many
\* polls follow while the file is not touched again, and the engine's
\* version changes through it: the reload that this one invocation runs
\* leaves a version other than the one before the increase.
C15_OneReloadOneVersionChange ==
    touch.active =>
        /\ touch.calls <= 1
        /\ touch.polls >= 1 => touch.calls = 1
        /\ (/\ touch.calls = 1
            /\ resp.op = "load_model" /\ resp.by = Watcher
            /\ resp.out = "True")
           => model_version # touch.v0

\* C15, amended: with the watcher running, one single increase of the
\* file's mtime makes the watcher invoke the reload callback exactly once,
\* however many polls follow while the file is not touched again; when
\* that reload succeeds the engine's version is "v" + the whole seconds of
\* the new mtime, which is another version than before only if the whole
\* second has changed.
C15_OneReloadPerIncrease ==
    touch.active =>
        /\ touch.calls <= 1
        /\ touch.polls >= 1 => touch.calls = 1
        /\ (/\ touch.calls = 1
            /\ resp.op = "load_model" /\ resp.by = Watcher
            /\ resp.out = "True")
           => /\ model_version = compute_version(file.mtime)
              /\ model = file.content

\* after one increase of the mtime the watcher has reloaded once, the
\* version has changed, and further polls have invoked nothing
C15_Witness ==
    /\ touch.active /\ hot # None /\ running[hot]
    /\ touch.polls = MaxPolls /\ touch.calls = 1
    /\ lpc[Watcher] \in {"loop", "sleep"}
    /\ model_version # touch.v0
    /\ model_version = compute_version(file.mtime)

\* C28: a model is installed only by the install step of a load_model call
\* that has deserialized it and then warmed it up, in that order; a call
\* that fails in deserialization or warm-up installs nothing and leaves the
\* engine with the handle it had when the call began.
C28_InstallAfterWarmup ==
    [][/\ model' # model =>
            \E t \in Loaders :
                /\ lpc[t] = "install" /\ lpc'[t] = "version"
                /\ model' = new_model[t]
       /\ \A t \in Loaders :
            /\ (lpc'[t] = "install" /\ lpc[t] # "install") => lpc[t] = "warm"
            /\ (lpc'[t] = "warm" /\ lpc[t] # "warm") => lpc[t] = "deser"
            /\ (lpc[t] \in {"deser", "warm"} /\ lpc'[t] = "idle") =>
                  /\ resp'.op = "load_model" /\ resp'.out = "False"
                  /\ model' = model /\ model_version' = model_version
                  /\ model' = before[t].model
                  /\ model_version' = before[t].version]_vars

\* a reload of a file that is there has failed before its install, and the
\* engine has the model it had
C28_Witness ==
    /\ resp.op = "load_model" /\ resp.out = "False" /\ resp.err = "failed"
    /\ file.exists
    /\ model_loaded /\ model = resp.before.model
    /\ model_version = resp.before.version

\* C30: once a model is installed the engine is never unloaded again:
\* model_loaded stays True through every step of every load, whatever the
\* file does, and a health check that answers finds a model.
C30_NeverUnloaded ==
    [][model_loaded =>
          /\ model_loaded'
          /\ resp'.op = "HealthCheck" =>
                (resp'.healthy /\ resp'.status = "healthy")]_vars

\* a reload has failed on a loaded engine whose file is gone
C30_Witness ==
    /\ resp.op = "load_model" /\ resp.out = "False"
    /\ ~file.exists
    /\ resp.before.model # None
    /\ model_loaded

\* C23: a poll that finds the file missing goes to "continue": it enters
\* no callback and leaves every _last_mtime as it was; so a poll that
\* finds the file back enters the callback exactly when its mtime is
\* greater than the one observed before, and records it.
C23_MissingFileIsSkipped ==
    [][\A t \in WatchThreads :
        (lpc[t] = "sleep" /\ lpc'[t] # "sleep") =>
            /\ ~file.exists =>
                 /\ lpc'[t] = "continue"
                 /\ last_mtime' = last_mtime
                 /\ model' = model /\ model_version' = model_version
            /\ (file.exists /\ last_mtime[target[t]].seen) =>
                 /\ lpc'[t] = "idle" <=>
                      file.mtime > last_mtime[target[t]].mtime
                 /\ last_mtime'[target[t]].seen
                 /\ last_mtime'[target[t]].mtime >=
                      last_mtime[target[t]].mtime
                 /\ last_mtime'[target[t]].mtime >= file.mtime]_vars

\* a poll has found the file missing, and the mtime observed is kept
C23_Witness ==
    /\ lpc[Watcher] = "continue"
    /\ ~file.exists
    /\ target[Watcher] = hot /\ running[hot]
    /\ last_mtime[hot].seen

\* C24: a poll enters the callback exactly when the file is there and its
\* mtime is greater than the observed one, or none was observed; that
\* poll records the mtime, and no step of the callback, however it ends,
\* changes what is recorded: the polls after a failed reload of a file
\* that is not touched enter no callback.
C24_CallbackOnNewMtime ==
    [][\A t \in WatchThreads :
        /\ (lpc[t] = "sleep" /\ lpc'[t] # "sleep") =>
             /\ lpc'[t] = "idle" <=> changed(target[t])
             /\ changed(target[t]) =>
                  last_mtime'[target[t]] = Seen(file.mtime)
             /\ ~changed(target[t]) => last_mtime' = last_mtime
        /\ (InCallback(t) /\ lpc'[t] # lpc[t]) =>
             /\ last_mtime' = last_mtime
             /\ last_mtime[target[t]].seen]_vars

\* a corrupt file was written once, the callback ran once and failed, and
\* the polls after it entered no callback
C24_Witness ==
    /\ touch.active /\ touch.calls = 1 /\ touch.polls = MaxPolls
    /\ file.exists /\ file.content = "corrupt"
    /\ model_version = touch.v0
    /\ lpc[Watcher] \in {"loop", "sleep"}
    /\ running[hot]

\* C25: when the callback ends, by a return or by raising, the thread is
\* at the test of its loop again and _running is what it was.
C25_LoopSurvivesCallback ==
    [][\A t \in WatchThreads :
        (InCallback(t) /\ ~InCallback(t)') =>
            /\ lpc'[t] = "loop"
            /\ running' = running
            /\ resp'.by = t /\ resp'.op = "load_model"]_vars

\* the callback has raised, the watcher is running, and a later change of
\* the file has made it enter the callback again
C25_Witness ==
    /\ touch.raised
    /\ hot # None /\ running[hot]
    /\ lpc[Watcher] = "idle"
    /\ touch.active /\ touch.calls = 1

\* C26: an instance that was started and on which stop() has then been
\* called is never Running again, and at most one thread polls for an
\* instance.
C26_StoppedForGood ==
    \A i \in Instances :
        /\ stopped[i] \in {"quiet", "reloading"} => ~running[i]
        /\ Cardinality(Polling(i)) <= 1

\* the steps the main thread takes in stop() and in stop_hot_reload
StopStep ==
    \/ ctl.pc = "idle" /\ ctl'.pc = "join"
    \/ ctl.pc = "join" /\ ctl'.pc = "idle"
    \/ resp = NoResp /\ resp'.op \in {"stop", "stop_hot_reload"}

\* C27: a step of stop() changes no thread's position in its loop or in
\* load_model and nothing of the engine, clears _running at most, and so
\* changes nothing on an instance that is not running; it returns
\* without an error; a thread ends at the test of its loop only, never
\* inside the callback.
C27_StopIsIdempotentAndPatient ==
    [][/\ StopStep =>
            /\ UNCHANGED <<lpc, new_model, before, model, model_version,
                           model_lock, last_mtime, thread, target>>
            /\ \A i \in Instances :
                 /\ running'[i] => running[i]
                 /\ (~running[i] /\ hot # i) =>
                      /\ running'[i] = running[i]
                      /\ hot' = hot
            /\ resp' # NoResp => (resp'.out = "ok" /\ resp'.err = "none")
       /\ \A t \in WatchThreads :
            (lpc'[t] = "exit" /\ lpc[t] # "exit") =>
                lpc[t] \in {"loop", "continue"}]_vars

\* stop() was called during a callback, and the callback has gone on to
\* install its model and return True
C27_Witness ==
    /\ resp.op = "load_model" /\ resp.out = "True"
    /\ resp.by \in WatchThreads
    /\ stopped[target[resp.by]] = "reloading"
    /\ ~running[target[resp.by]]
    /\ model = "b"

\* C29: at most one thread is executing load_model.
C29_ReloadsSerialized ==
    Cardinality({t \in LoadThreads : Loading(t)}) <= 1

\* C21: the shutdown goes in this order: the listener is closed, then the
\* watcher is stopped, then the calls in flight end or are given up, then
\* the process ends.  So a watcher that the signal handler has stopped
\* finds the listener closed, the server is stopped only with the
\* watcher stopped, and the process ends only with the server stopped.
C21_ShutdownOrder ==
    /\ (shutdown_event /\ \E i \in Instances : stopped[i] # "no") =>
          ~Accepting
    /\ server \in {"stopped", "exited"} =>
          (shutdown_event /\ hot = None /\ ctl = NoCtl)

\* the float that the product of the normalized coordinate k and its side
\* gives
denormalized(k) == fl(box.norm[k].m * side(box, k), 2^(box.norm[k].e))

\* the distance of two floats is at most one unit of the last place of b
WithinUlp(a, b) ==
    LET x == a.m * 2^(b.e)
        y == b.m * 2^(a.e)
    IN  (IF x >= y THEN x - y ELSE y - x) <= 2^(a.e)

C31_UpdateNeverFailsDetect ==
    ~(resp.op \in {"detect", "Detect"} /\ resp.err = "key")

\* C32: when the install of a load_model call computes the version, the
\* file it stats is the file the installed model was deserialized from:
\* the version that is set never labels a content other than the file's.
C32_VersionOfDeserializedFile ==
    [][\A t \in LoadThreads :
        (lpc[t] = "version" /\ lpc'[t] = "log") =>
            /\ model' = new_model[t]
            /\ file.content = model'
            /\ model_version' = compute_version(file.mtime)]_vars

\* C36: while an instance runs, the mtime it has observed never
\* decreases; a poll that finds the file with an mtime equal to or below
\* the observed one enters no callback and leaves the model, the version
\* and the observed mtime as they are.
C36_ObservedMtimeNeverDecreases ==
    [][/\ \A i \in Instances :
            (running[i] /\ running'[i] /\ last_mtime[i].seen) =>
                /\ last_mtime'[i].seen
                /\ last_mtime'[i].mtime >= last_mtime[i].mtime
       /\ \A t \in WatchThreads :
            (/\ lpc[t] = "sleep" /\ lpc'[t] # "sleep"
             /\ file.exists
             /\ last_mtime[target[t]].seen
             /\ file.mtime <= last_mtime[target[t]].mtime) =>
                /\ lpc'[t] = "loop"
                /\ last_mtime' = last_mtime
                /\ model' = model /\ model_version' = model_version]_vars

\* the file was rolled back to a loadable content with an older mtime, a
\* poll has found it so, and the engine has the model it had
C36_Witness ==
    /\ hot # None /\ running[hot]
    /\ touch.skipped
    /\ file.exists /\ file.content \in Good
    /\ last_mtime[hot].seen /\ file.mtime < last_mtime[hot].mtime
    /\ lpc[Watcher] \in {"loop", "sleep"}
    /\ model # file.content

\* stop() has been called on the instance i and has returned
StopReturned(i) == stopped[i] # "no" /\ ~(ctl.pc = "join" /\ ctl.inst = i)

C33_EventuallyNewestFile ==
    <>[](/\ model = file.content
         /\ model_version = compute_version(file.mtime))

\* the guard is held only by a detect call inside its with block or by a
\* load_model call between its install and the end of its with block
GuardHeldInside ==
    \/ model_lock = Free
    \/ \E w \in Workers :
           /\ model_lock = w
           /\ wk[w].pc \in {"decode", "predict", "member", "lookup", "ret"}
    \/ \E t \in LoadThreads :
           /\ model_lock = t
           /\ lpc[t] = "version"

\* C35: the guard is free whenever no call is inside a guarded section,
\* a load_model that reaches its log lines does not hold the guard it asks
\* for again, and under fair scheduling every detect call and every
\* load_model call comes to its end, returning or raising.
C35_GuardNeverDeadlocks ==
    /\ [](GuardHeldInside /\ \A t \in Loaders : lpc[t] = "log" => model_lock # t)
    /\ \A w \in Workers : InFlight(w) ~> ~InFlight(w)
    /\ \A t \in Loaders : (lpc[t] # "idle") ~> (lpc[t] = "idle")

\* a detect call has raised out of its with block while a load waits at
\* its install, and the guard is free
C35_Witness ==
    /\ resp.op = "detect"
    /\ resp.err \in {"decode", "inference", "key"}
    /\ model_lock = Free
    /\ \E t \in Loaders : lpc[t] = "install"

====
